---- MODULE Spec2Model ----
(***************************************************************************)
(* Model of tools/refresh_data.py: the statistics aggregator               *)
(* (compute_home_away_stats), the Poisson outcome estimator                *)
(* (calculate_match_probabilities, normalize_and_round) and the fixture    *)
(* cross-validation (cross_validate, as called from main).                 *)
(*                                                                         *)
(* Numbers.  Python floats are modelled as exact rationals <<n, d>> in     *)
(* lowest terms (d > 0); <<0, 0>> stands for a variable not yet assigned.  *)
(* The 49 grid terms of calculate_match_probabilities all carry the factor *)
(* exp(-lambda_home) * exp(-lambda_away), which cancels when the three     *)
(* bucket sums are divided by their total (lines 203-206); the model keeps *)
(* the grid terms as exact naturals scaled by one common positive factor   *)
(* and the returned triple as three numerators over the common total.      *)
(* Floating-point rounding error (about 1e-16 relative) is not modelled.   *)
(* Naturals beyond 32 bits are little-endian sequences of base-Base limbs. *)
(***************************************************************************)
EXTENDS Integers, Sequences, FiniteSets, TLC

\* ---------------------------------------------------------------- bounds
MaxMatches == 2
MaxGoals == 3

\* ------------------------------------------------------------- rationals
RECURSIVE GCD(_, _)
GCD(a, b) == IF b = 0 THEN a ELSE GCD(b, a % b)

Abs(x) == IF x < 0 THEN -x ELSE x

\* the rational n/d in lowest terms, d > 0
Rat(n, d) ==
    LET g == GCD(Abs(n), Abs(d))
        s == IF d < 0 THEN -1 ELSE 1
    IN  <<(s * n) \div g, (s * d) \div g>>

Unset == <<0, 0>>
One == <<1, 1>>
IsZero(x) == x[1] = 0 /\ x[2] # 0
RMul(x, y) == Rat(x[1] * y[1], x[2] * y[2])
RDiv(x, y) == Rat(x[1] * y[2], x[2] * y[1])
RLess(x, y) == x[1] * y[2] < y[1] * x[2]
RLeq(x, y) == x[1] * y[2] <= y[1] * x[2]
RMax(x, y) == IF RLess(x, y) THEN y ELSE x
RMin(x, y) == IF RLess(y, x) THEN y ELSE x

\* ------------------------------------------------- multi-limb naturals
Base == 100 * 100

RECURSIVE BAddC(_, _, _)
BAddC(x, y, c) ==
    IF x = << >> /\ y = << >>
      THEN IF c = 0 THEN << >> ELSE <<c>>
      ELSE LET a == IF x = << >> THEN 0 ELSE Head(x)
               b == IF y = << >> THEN 0 ELSE Head(y)
               s == a + b + c
           IN  <<s % Base>> \o BAddC(IF x = << >> THEN x ELSE Tail(x),
                                     IF y = << >> THEN y ELSE Tail(y), s \div Base)

BAdd(x, y) == BAddC(x, y, 0)

RECURSIVE BMulSmallC(_, _, _)
BMulSmallC(x, k, c) ==
    IF x = << >>
      THEN IF c = 0 THEN << >>
           ELSE <<c % Base>> \o BMulSmallC(x, k, c \div Base)
      ELSE LET s == Head(x) * k + c
           IN  <<s % Base>> \o BMulSmallC(Tail(x), k, s \div Base)

\* x * k for 0 <= k < Base
BMulSmall(x, k) == IF k = 0 THEN << >> ELSE BMulSmallC(x, k, 0)

RECURSIVE BMul(_, _)
BMul(x, y) ==
    IF x = << >> \/ y = << >> THEN << >>
    ELSE LET rest == BMul(x, Tail(y))
         IN  BAdd(BMulSmall(x, Head(y)), IF rest = << >> THEN << >> ELSE <<0>> \o rest)

RECURSIVE BLessFrom(_, _, _)
BLessFrom(x, y, i) ==
    IF i = 0 THEN FALSE
    ELSE IF x[i] # y[i] THEN x[i] < y[i]
    ELSE BLessFrom(x, y, i - 1)

BLess(x, y) ==
    IF Len(x) # Len(y) THEN Len(x) < Len(y) ELSE BLessFrom(x, y, Len(x))

BLeq(x, y) == ~BLess(y, x)

RECURSIVE BPow(_, _)
BPow(b, e) == IF e = 0 THEN <<1>> ELSE BMulSmall(BPow(b, e - 1), b)

\* ------------------------------------------------------ input match records
None == -1
Teams == {1, 2, 3}
\* full-time goal values: nil-nil, a single goal, a high score
Goals == {0, 1, MaxGoals}
Statuses == {"FINISHED", "SCHEDULED"}

MatchRecords ==
    { r \in [status : Statuses, homeTeam : Teams, awayTeam : Teams,
             home : Goals \cup {None}, away : Goals \cup {None}] :
        r.homeTeam # r.awayTeam }

\* the records between teams 1 and 2 (team 3 then never enters the rate table)
TwoTeamRecords == { r \in MatchRecords : r.homeTeam # 3 /\ r.awayTeam # 3 }

NoMatch == [status |-> "NONE", homeTeam |-> 0, awayTeam |-> 0, home |-> None, away |-> None]

ZeroStats == [home_gf |-> 0, home_ga |-> 0, home_games |-> 0,
              away_gf |-> 0, away_ga |-> 0, away_games |-> 0]

DEFAULT_AVG_HOME == <<7, 5>>
DEFAULT_AVG_AWAY == <<11, 10>>

VARIABLES pc, m, n_seen, stats, total_home_goals, total_away_goals, total_finished,
          league_avg_home, league_avg_away,
          home_id, away_id, home_attack, home_defense, away_attack, away_defense,
          lambda_home, lambda_away, result, probW, probD, probL, err_line,
          cv_pc, all_matches, played_map, fixtures, focus_fixture_counts, tix, fix,
          warnings, valid_fixtures

aggVars == <<m, n_seen, stats, total_home_goals, total_away_goals, total_finished,
             league_avg_home, league_avg_away>>
estVars == <<home_id, away_id, home_attack, home_defense, away_attack, away_defense,
             lambda_home, lambda_away, result, probW, probD, probL, err_line>>
cvVars == <<cv_pc, all_matches, played_map, fixtures, focus_fixture_counts, tix, fix,
            warnings, valid_fixtures>>
vars == <<pc, aggVars, estVars, cvVars>>

\* ------------------------------------------- compute_home_away_stats
\* faulty variant: the away goal value is not tested for None
SkippedAwayUnchecked(r) == r.status # "FINISHED" \/ r.home = None

\* the guard of the two `continue` statements
Skipped(r) == r.status # "FINISHED" \/ r.home = None \/ r.away = None

\* stats after the setdefault loop over (home_id, away_id)
WithTeams(st, r) ==
    [t \in DOMAIN st \cup {r.homeTeam, r.awayTeam} |->
        IF t \in DOMAIN st THEN st[t] ELSE ZeroStats]

\* faulty variant: the goals conceded at home are not accumulated
AddHomeNoConceded(rec, r) ==
    [rec EXCEPT !.home_gf = @ + r.home, !.home_games = @ + 1]

AddHome(rec, r) ==
    [rec EXCEPT !.home_gf = @ + r.home, !.home_ga = @ + r.away, !.home_games = @ + 1]

\* faulty variant: the away side's goals for and against are swapped
AddAwaySwapped(rec, r) ==
    [rec EXCEPT !.away_gf = @ + r.home, !.away_ga = @ + r.away, !.away_games = @ + 1]

AddAway(rec, r) ==
    [rec EXCEPT !.away_gf = @ + r.away, !.away_ga = @ + r.home, !.away_games = @ + 1]

Accumulate(st, r) ==
    LET s0 == WithTeams(st, r)
        s1 == [s0 EXCEPT ![r.homeTeam] = AddHome(@, r)]
    IN  [s1 EXCEPT ![r.awayTeam] = AddAway(@, r)]

\* one iteration of `for m in all_matches` on the next record r of the list
LoopBody(r) ==
    /\ pc = "loop"
    /\ n_seen < MaxMatches
    /\ m' = r
    /\ n_seen' = n_seen + 1
    /\ pc' = "loop"
    /\ IF Skipped(r)
         THEN UNCHANGED <<stats, total_home_goals, total_away_goals, total_finished>>
         ELSE /\ total_home_goals' = total_home_goals + r.home
              /\ total_away_goals' = total_away_goals + r.away
              /\ total_finished' = total_finished + 1
              /\ stats' = Accumulate(stats, r)
    /\ UNCHANGED <<league_avg_home, league_avg_away>>
    /\ UNCHANGED <<estVars, cvVars>>

\* faulty variant: no fallback baseline, an empty season averages 0 goals
LeagueAvgNoDefault(total, finished, default) ==
    IF finished # 0 THEN Rat(total, finished) ELSE <<0, 1>>

LeagueAvg(total, finished, default) ==
    IF finished # 0 THEN Rat(total, finished) ELSE default

\* lines 154-157; the loop variable m goes out of scope, n_seen stays as the
\* length of the list that was passed in
Return ==
    /\ pc = "loop"
    /\ pc' = "returned"
    /\ league_avg_home' = LeagueAvg(total_home_goals, total_finished, DEFAULT_AVG_HOME)
    /\ league_avg_away' = LeagueAvg(total_away_goals, total_finished, DEFAULT_AVG_AWAY)
    /\ m' = NoMatch
    /\ UNCHANGED <<n_seen, stats, total_home_goals, total_away_goals, total_finished>>
    /\ UNCHANGED <<estVars, cvVars>>

\* ------------------------------------------------------- poisson_prob
RECURSIVE Factorial(_)
Factorial(k) == IF k = 0 THEN 1 ELSE k * Factorial(k - 1)

MAX_GOALS == 7

\* poisson_prob(lam, k) * exp(lam) * lam[2]^(MAX_GOALS-1) * (MAX_GOALS-1)!  :
\* lam^k / k! over the common denominator of the grid's terms.
PoissonScaled(lam, k) ==
    BMulSmall(BMul(BPow(lam[1], k), BPow(lam[2], MAX_GOALS - 1 - k)),
              Factorial(MAX_GOALS - 1) \div Factorial(k))

\* ------------------------------------- calculate_match_probabilities
HomeFallback(st, hid) == hid \notin DOMAIN st \/ st[hid].home_games = 0
AwayFallback(st, aid) == aid \notin DOMAIN st \/ st[aid].away_games = 0

HomeAttack(st, hid, avgH) ==
    IF HomeFallback(st, hid) THEN One
    ELSE RDiv(Rat(st[hid].home_gf, st[hid].home_games), avgH)

\* faulty variant: a team without home games is rated on its away record
HomeDefenseFromAway(st, hid, avgA) ==
    IF hid \notin DOMAIN st THEN One
    ELSE IF st[hid].home_games = 0
      THEN IF IsZero(avgA) THEN One
           ELSE RDiv(Rat(st[hid].away_ga, st[hid].away_games), avgA)
    ELSE RDiv(Rat(st[hid].home_ga, st[hid].home_games), avgA)

HomeDefense(st, hid, avgA) ==
    IF HomeFallback(st, hid) THEN One
    ELSE RDiv(Rat(st[hid].home_ga, st[hid].home_games), avgA)

AwayAttack(st, aid, avgA) ==
    IF AwayFallback(st, aid) THEN One
    ELSE RDiv(Rat(st[aid].away_gf, st[aid].away_games), avgA)

AwayDefense(st, aid, avgH) ==
    IF AwayFallback(st, aid) THEN One
    ELSE RDiv(Rat(st[aid].away_ga, st[aid].away_games), avgH)

LAMBDA_MIN == <<1, 5>>
LAMBDA_MAX == <<5, 1>>

\* faulty variant: the lower clamp is missing
ClampUpperOnly(x) == RMin(LAMBDA_MAX, x)

\* max(0.2, min(5.0, x))
Clamp(x) == RMax(LAMBDA_MIN, RMin(LAMBDA_MAX, x))

\* the source line of the first float division by zero, 0 if there is none
ZeroDivisionLine(st, hid, aid, avgH, avgA) ==
    IF ~HomeFallback(st, hid) /\ IsZero(avgH) THEN 178
    ELSE IF ~HomeFallback(st, hid) /\ IsZero(avgA) THEN 179
    ELSE IF ~AwayFallback(st, aid) /\ IsZero(avgA) THEN 185
    ELSE IF ~AwayFallback(st, aid) /\ IsZero(avgH) THEN 186
    ELSE 0

\* faulty variant: the home-win and away-win buckets are swapped
BucketSwapped(hg, ag) == IF hg < ag THEN "pw" ELSE IF hg = ag THEN "pd" ELSE "pl"

\* the bucket of scoreline (hg, ag)
Bucket(hg, ag) == IF hg > ag THEN "pw" ELSE IF hg = ag THEN "pd" ELSE "pl"

\* the double loop over range(MAX_GOALS), cell c = hg * MAX_GOALS + ag
RECURSIVE GridLoop(_, _, _, _)
GridLoop(ph, pa, c, acc) ==
    IF c = MAX_GOALS * MAX_GOALS THEN acc
    ELSE LET hg == c \div MAX_GOALS
             ag == c % MAX_GOALS
             p  == BMul(ph[hg], pa[ag])
             b  == Bucket(hg, ag)
         IN  GridLoop(ph, pa, c + 1, [acc EXCEPT ![b] = BAdd(@, p)])

NoResult == [pw |-> << >>, pd |-> << >>, pl |-> << >>, total |-> << >>]

\* pw, pd, pl as numerators over total = pw + pd + pl
Grid(lh, la) ==
    LET ph  == [k \in 0 .. MAX_GOALS - 1 |-> PoissonScaled(lh, k)]
        pa  == [k \in 0 .. MAX_GOALS - 1 |-> PoissonScaled(la, k)]
        acc == GridLoop(ph, pa, 0, [pw |-> << >>, pd |-> << >>, pl |-> << >>])
    IN  [pw |-> acc.pw, pd |-> acc.pd, pl |-> acc.pl,
         total |-> BAdd(BAdd(acc.pw, acc.pd), acc.pl)]

CalculateMatchProbabilities(hid, aid) ==
    /\ pc = "returned"
    /\ ZeroDivisionLine(stats, hid, aid, league_avg_home, league_avg_away) = 0
    /\ pc' = "calculated"
    /\ home_id' = hid
    /\ away_id' = aid
    /\ home_attack' = HomeAttack(stats, hid, league_avg_home)
    /\ home_defense' = HomeDefense(stats, hid, league_avg_away)
    /\ away_attack' = AwayAttack(stats, aid, league_avg_away)
    /\ away_defense' = AwayDefense(stats, aid, league_avg_home)
    /\ lambda_home' = Clamp(RMul(RMul(home_attack', away_defense'), league_avg_home))
    /\ lambda_away' = Clamp(RMul(RMul(away_attack', home_defense'), league_avg_away))
    /\ result' = Grid(lambda_home', lambda_away')
    /\ UNCHANGED <<aggVars, cvVars, probW, probD, probL, err_line>>

\* the same call when one of the four divisions raises ZeroDivisionError;
\* the locals assigned before the raising line keep their values
CalculateRaises(hid, aid) ==
    LET line == ZeroDivisionLine(stats, hid, aid, league_avg_home, league_avg_away)
    IN  /\ pc = "returned"
        /\ line # 0
        /\ pc' = "raised"
        /\ err_line' = line
        /\ home_id' = hid
        /\ away_id' = aid
        /\ home_attack' = IF line = 178 THEN Unset
                          ELSE HomeAttack(stats, hid, league_avg_home)
        /\ home_defense' = IF line \in {178, 179} THEN Unset
                           ELSE HomeDefense(stats, hid, league_avg_away)
        /\ away_attack' = IF line \in {178, 179, 185} THEN Unset
                          ELSE AwayAttack(stats, aid, league_avg_away)
        /\ UNCHANGED <<aggVars, cvVars, away_defense, lambda_home, lambda_away, result,
                       probW, probD, probL>>

\* ------------------------------------------------ normalize_and_round
\* faulty variant: rounds up to the next hundredth
RoundHundredthsUp(p, t) ==
    CHOOSE k \in 0 .. 100 :
        /\ BLeq(BMulSmall(p, 100), BMulSmall(t, k))
        /\ k = 0 \/ BLess(BMulSmall(t, k - 1), BMulSmall(p, 100))

\* round(p / t, 2) in hundredths: the k nearest to 100 * p / t, the even one on a tie
RoundHundredths(p, t) ==
    LET p200 == BMulSmall(p, 200)
        lo(k) == BLeq(BMulSmall(t, 2 * k - 1), p200)
        hi(k) == BLeq(p200, BMulSmall(t, 2 * k + 1))
        fit == { k \in 0 .. 100 : (k = 0 \/ lo(k)) /\ hi(k) }
    IN  IF Cardinality(fit) = 1 THEN CHOOSE k \in fit : TRUE
        ELSE CHOOSE k \in fit : k % 2 = 0

\* pl = round(1.0 - pw - pd, 2)
RoundRest(w, d) == 100 - w - d

NormalizeAndRound ==
    /\ pc = "calculated"
    /\ pc' = "done"
    /\ probW' = RoundHundredths(result.pw, result.total)
    /\ probD' = RoundHundredths(result.pd, result.total)
    /\ probL' = RoundRest(probW', probD')
    /\ UNCHANGED <<aggVars, cvVars, home_id, away_id, home_attack, home_defense, away_attack,
                   away_defense, lambda_home, lambda_away, result, err_line>>

\* ------------------------------------------------------ cross_validate
MaxCvMatches == 2
MaxMatchday == 2
MaxPlayed == 1

FOCUS_IDS == {58, 66, 61, 64}
\* the order in which CPython iterates the set literal {58, 66, 61, 64}
FocusOrder == <<64, 58, 66, 61>>
CvTeams == {58, 66, 57}

CvRecords ==
    { r \in [status : {"SCHEDULED", "TIMED", "FINISHED"}, matchday : 1 .. MaxMatchday,
             homeTeam : CvTeams, awayTeam : CvTeams] : r.homeTeam # r.awayTeam }

RECURSIVE SeqsUpTo(_, _)
SeqsUpTo(S, n) ==
    IF n = 0 THEN {<< >>}
    ELSE LET shorter == SeqsUpTo(S, n - 1)
         IN  shorter \cup { Append(q, x) : q \in shorter, x \in S }

is_focus_match(r) == r.homeTeam \in FOCUS_IDS \/ r.awayTeam \in FOCUS_IDS
is_unplayed(r) == r.status \in {"SCHEDULED", "TIMED"}

\* played_map.get(tid, 0)
PlayedGet(pm, tid) == IF tid \in DOMAIN pm THEN pm[tid] ELSE 0

Involves(r, tid) == r.homeTeam = tid \/ r.awayTeam = tid

\* the number of matches of tid in the full list that are not SCHEDULED/TIMED
FinishedCount(ms, tid) ==
    Cardinality({ i \in 1 .. Len(ms) : Involves(ms[i], tid) /\ ~is_unplayed(ms[i]) })

\* how many fixtures each focus team appears in
FocusFixtureCounts(fs) ==
    [tid \in FOCUS_IDS |-> Cardinality({ i \in 1 .. Len(fs) : Involves(fs[i], tid) })]

\* main, step 3: focus_unplayed, then the entry of cross_validate up to line 241
FilterAndEnter ==
    /\ cv_pc = "main"
    /\ fixtures' = SelectSeq(all_matches, LAMBDA r : is_focus_match(r) /\ is_unplayed(r))
    /\ focus_fixture_counts' = FocusFixtureCounts(fixtures')
    /\ warnings' = << >>
    /\ valid_fixtures' = << >>
    /\ tix' = 1
    /\ cv_pc' = "teams"
    /\ UNCHANGED <<all_matches, played_map, fix>>

\* one iteration of `for tid in FOCUS_IDS` (lines 246-267)
TeamCheck ==
    /\ cv_pc = "teams"
    /\ tix <= Len(FocusOrder)
    /\ LET tid == FocusOrder[tix]
           played == PlayedGet(played_map, tid)
           finished_count == FinishedCount(all_matches, tid)
       IN  warnings' = IF played # finished_count
                         THEN Append(warnings, <<"WARNING", tid, played, finished_count>>)
                         ELSE warnings
    /\ tix' = tix + 1
    /\ UNCHANGED <<cv_pc, all_matches, played_map, fixtures, focus_fixture_counts, fix,
                   valid_fixtures>>

TeamsDone ==
    /\ cv_pc = "teams"
    /\ tix > Len(FocusOrder)
    /\ cv_pc' = "validate"
    /\ fix' = 1
    /\ UNCHANGED <<all_matches, played_map, fixtures, focus_fixture_counts, tix,
                   warnings, valid_fixtures>>

\* the first record of the full list with the fixture's matchday and teams, 0 if none
FullMatchIndex(ms, f) ==
    LET hits == { i \in 1 .. Len(ms) : /\ ms[i].matchday = f.matchday
                                       /\ ms[i].homeTeam = f.homeTeam
                                       /\ ms[i].awayTeam = f.awayTeam }
    IN  IF hits = {} THEN 0 ELSE CHOOSE i \in hits : \A j \in hits : i <= j

\* the test of line 285
Excluded(ms, f) ==
    LET i == FullMatchIndex(ms, f)
    IN  i # 0 /\ ~is_unplayed(ms[i])

\* one iteration of `for f in fixtures` (lines 270-294)
ValidateFixture ==
    /\ cv_pc = "validate"
    /\ fix <= Len(fixtures)
    /\ LET f == fixtures[fix]
       IN  IF Excluded(all_matches, f)
             THEN /\ warnings' = Append(warnings, <<"EXCLUDED", f.matchday, f.homeTeam,
                                                   f.awayTeam>>)
                  /\ UNCHANGED valid_fixtures
             ELSE /\ valid_fixtures' = Append(valid_fixtures, f)
                  /\ UNCHANGED warnings
    /\ fix' = fix + 1
    /\ UNCHANGED <<cv_pc, all_matches, played_map, fixtures, focus_fixture_counts, tix>>

CvReturn ==
    /\ cv_pc = "validate"
    /\ fix > Len(fixtures)
    /\ cv_pc' = "done"
    /\ UNCHANGED <<all_matches, played_map, fixtures, focus_fixture_counts, tix, fix,
                   warnings, valid_fixtures>>

CvLocals ==
    /\ fixtures = << >>
    /\ focus_fixture_counts = [tid \in FOCUS_IDS |-> 0]
    /\ tix = 0
    /\ fix = 0
    /\ warnings = << >>
    /\ valid_fixtures = << >>

CvIdle ==
    /\ cv_pc = "idle"
    /\ all_matches = << >>
    /\ played_map = << >>
    /\ CvLocals

CvInit ==
    /\ cv_pc = "main"
    /\ all_matches \in SeqsUpTo(CvRecords, MaxCvMatches)
    /\ played_map \in [CvTeams -> 0 .. MaxPlayed]
    /\ CvLocals

AggInit ==
    /\ pc = "loop"
    /\ m = NoMatch
    /\ n_seen = 0
    /\ stats = << >>
    /\ total_home_goals = 0
    /\ total_away_goals = 0
    /\ total_finished = 0
    /\ league_avg_home = Unset
    /\ league_avg_away = Unset
    /\ home_id = 0
    /\ away_id = 0
    /\ home_attack = Unset
    /\ home_defense = Unset
    /\ away_attack = Unset
    /\ away_defense = Unset
    /\ lambda_home = Unset
    /\ lambda_away = Unset
    /\ result = NoResult
    /\ probW = None
    /\ probD = None
    /\ probL = None
    /\ err_line = 0

Init == AggInit /\ CvIdle

Next ==
    \/ \E r \in TwoTeamRecords : LoopBody(r)
    \/ Return
    \/ \E hid \in Teams : \E aid \in Teams \ {hid} : CalculateMatchProbabilities(hid, aid)
    \/ \E hid \in Teams : \E aid \in Teams \ {hid} : CalculateRaises(hid, aid)
    \/ NormalizeAndRound

Spec == Init /\ [][Next]_vars

NextAgg ==
    \/ \E r \in MatchRecords : LoopBody(r)
    \/ Return

SpecAgg == Init /\ [][NextAgg]_vars

InitCV == AggInit /\ CvInit

NextCV ==
    \/ FilterAndEnter /\ UNCHANGED <<pc, aggVars, estVars>>
    \/ TeamCheck /\ UNCHANGED <<pc, aggVars, estVars>>
    \/ TeamsDone /\ UNCHANGED <<pc, aggVars, estVars>>
    \/ ValidateFixture /\ UNCHANGED <<pc, aggVars, estVars>>
    \/ CvReturn /\ UNCHANGED <<pc, aggVars, estVars>>

SpecCV == InitCV /\ [][NextCV]_vars

\* ================================================================ claims
Computed == pc \in {"calculated", "done"}

\* independent rounding of the away-win value, for comparison
NaiveL == RoundHundredths(result.pl, result.total)

\* C1: after calculate_match_probabilities and normalize_and_round, the three
\* values are each between 0.00 and 1.00 (in hundredths) and sum to exactly 1.00;
\* the away-win value 1.00 - home - draw is never negative.
C1_TripleInRangeSumsToOne ==
    pc = "done" =>
        /\ probW \in 0 .. 100
        /\ probD \in 0 .. 100
        /\ probL \in 0 .. 100
        /\ probW + probD + probL = 100

\* a triple whose three values rounded one by one would not sum to 1.00
C1_Witness ==
    /\ pc = "done"
    /\ home_id \in DOMAIN stats
    /\ away_id \in DOMAIN stats
    /\ probW + probD + NaiveL # 100
    /\ probW + probD + probL = 100

\* C2: compute_home_away_stats followed by calculate_match_probabilities never
\* divides by zero and never raises, for every match sequence and team pair.
C2_NeverRaises == pc # "raised"

Processed(r) == r.status = "FINISHED" /\ r.home # None /\ r.away # None

LoopStep == pc = "loop" /\ pc' = "loop" /\ n_seen' = n_seen + 1

OldStats(t) == IF t \in DOMAIN stats THEN stats[t] ELSE ZeroStats

\* C3: a FINISHED match with goals x (home) and y (away) adds 1, x, y to the home
\* team's home_games, home_gf, home_ga and 1, y, x to the away team's away_games,
\* away_gf, away_ga; the home team's away counters, the away team's home counters
\* and every other team's record are unchanged; a new team starts from zeros.
C3_MatchEffect ==
    [][ (LoopStep /\ Processed(m')) =>
          LET H == m'.homeTeam
              A == m'.awayTeam
              x == m'.home
              y == m'.away
          IN  /\ DOMAIN stats' = DOMAIN stats \cup {H, A}
              /\ stats'[H].home_games = OldStats(H).home_games + 1
              /\ stats'[H].home_gf = OldStats(H).home_gf + x
              /\ stats'[H].home_ga = OldStats(H).home_ga + y
              /\ stats'[A].away_games = OldStats(A).away_games + 1
              /\ stats'[A].away_gf = OldStats(A).away_gf + y
              /\ stats'[A].away_ga = OldStats(A).away_ga + x
              /\ stats'[H].away_games = OldStats(H).away_games
              /\ stats'[H].away_gf = OldStats(H).away_gf
              /\ stats'[H].away_ga = OldStats(H).away_ga
              /\ stats'[A].home_games = OldStats(A).home_games
              /\ stats'[A].home_gf = OldStats(A).home_gf
              /\ stats'[A].home_ga = OldStats(A).home_ga
              /\ \A t \in DOMAIN stats \ {H, A} : stats'[t] = stats[t] ]_vars

\* a processed 3-1 whose home team already had an away record, whose away team is
\* new, with a third team in the table
C3_Witness ==
    /\ pc = "loop"
    /\ Processed(m)
    /\ m.home = 3
    /\ m.away = 1
    /\ Cardinality(DOMAIN stats) = 3
    /\ stats[m.homeTeam].away_games > 0
    /\ stats[m.awayTeam].away_games = 1
    /\ stats[m.awayTeam].home_games = 0

\* C4: the processed-match count starts at 0 and grows by one exactly on a
\* processed record; when it is 0 at the return the result is 1.4, 1.1 and an
\* empty table, otherwise the baselines are total goals / processed matches.
C4_Baselines ==
    [][ /\ LoopStep =>
            /\ total_finished' = total_finished + (IF Processed(m') THEN 1 ELSE 0)
            /\ total_home_goals' = total_home_goals + (IF Processed(m') THEN m'.home ELSE 0)
            /\ total_away_goals' = total_away_goals + (IF Processed(m') THEN m'.away ELSE 0)
        /\ (pc = "loop" /\ pc' = "returned") =>
            /\ stats' = stats
            /\ total_finished = 0 =>
                /\ league_avg_home' = <<7, 5>>
                /\ league_avg_away' = <<11, 10>>
                /\ DOMAIN stats' = {}
            /\ total_finished > 0 =>
                /\ league_avg_home'[2] > 0
                /\ league_avg_away'[2] > 0
                /\ league_avg_home'[1] * total_finished = total_home_goals * league_avg_home'[2]
                /\ league_avg_away'[1] * total_finished = total_away_goals * league_avg_away'[2]
      ]_vars

\* a return after records were seen and every one of them was skipped
C4_Witness ==
    /\ pc = "returned"
    /\ n_seen > 0
    /\ total_finished = 0
    /\ league_avg_home = <<7, 5>>
    /\ league_avg_away = <<11, 10>>
    /\ DOMAIN stats = {}

\* C5: a record that is not FINISHED or lacks a goal value changes no counter,
\* creates no rate record and leaves the three league-wide totals unchanged.
C5_SkippedChangesNothing ==
    [][ (LoopStep /\ ~Processed(m')) =>
          UNCHANGED <<stats, total_home_goals, total_away_goals, total_finished,
                      league_avg_home, league_avg_away>> ]_vars

\* a FINISHED record without its away goal value, seen when the table holds other
\* teams but not its home team
C5_Witness ==
    /\ pc = "loop"
    /\ m.status = "FINISHED"
    /\ m.home # None
    /\ m.away = None
    /\ DOMAIN stats # {}
    /\ m.homeTeam \notin DOMAIN stats
    /\ total_finished = n_seen - 1

\* C6: a home team that is absent or has no home game gets home attack and
\* defense exactly 1.0 whatever its away record; symmetrically for the away team.
C6_FallbackIsOne ==
    /\ (Computed \/ (pc = "raised" /\ err_line \in {185, 186})) =>
          ((home_id \notin DOMAIN stats \/ stats[home_id].home_games = 0) =>
              home_attack = <<1, 1>> /\ home_defense = <<1, 1>>)
    /\ Computed =>
          ((away_id \notin DOMAIN stats \/ stats[away_id].away_games = 0) =>
              away_attack = <<1, 1>> /\ away_defense = <<1, 1>>)

\* a home team with no home game and a non-trivial away record
C6_Witness ==
    /\ pc = "calculated"
    /\ home_id \in DOMAIN stats
    /\ stats[home_id].home_games = 0
    /\ stats[home_id].away_games > 0
    /\ stats[home_id].away_ga > stats[home_id].away_gf
    /\ home_attack = <<1, 1>>
    /\ home_defense = <<1, 1>>

RawHome == RMul(RMul(home_attack, away_defense), league_avg_home)
RawAway == RMul(RMul(away_attack, home_defense), league_avg_away)

ClampedFrom(lam, raw) ==
    /\ RLeq(<<1, 5>>, lam)
    /\ RLeq(lam, <<5, 1>>)
    /\ RLess(raw, <<1, 5>>) => lam = <<1, 5>>
    /\ RLess(<<5, 1>>, raw) => lam = <<5, 1>>
    /\ (RLeq(<<1, 5>>, raw) /\ RLeq(raw, <<5, 1>>)) => lam = raw

\* C7: lambda_home and lambda_away lie in [0.2, 5.0]: a product below 0.2 becomes
\* 0.2, one above 5.0 becomes 5.0, one inside the range is used unchanged.
C7_LambdaClamped ==
    Computed => ClampedFrom(lambda_home, RawHome) /\ ClampedFrom(lambda_away, RawAway)

\* one fixture with the home product above 5.0 and the away product below 0.2
C7_Witness ==
    /\ pc = "calculated"
    /\ RLess(<<5, 1>>, RawHome)
    /\ lambda_home = <<5, 1>>
    /\ RLess(RawAway, <<1, 5>>)
    /\ lambda_away = <<1, 5>>

AllAverage ==
    /\ home_attack = <<1, 1>>
    /\ home_defense = <<1, 1>>
    /\ away_attack = <<1, 1>>
    /\ away_defense = <<1, 1>>

\* C8 as stated: with all four strengths 1.0, and for every pair of baselines the
\* aggregator can return, home win is strictly more probable than away win.
C8_HomeAdvantageAlways ==
    (Computed /\ AllAverage) => BLess(result.pl, result.pw)

\* C8 amended: with all four strengths 1.0, home win is strictly more probable
\* than away win whenever lambda_home > lambda_away, that is whenever
\* league_avg_home clamped to [0.2, 5.0] exceeds league_avg_away clamped alike.
C8_HomeAdvantageIfHomeBaselineLarger ==
    (Computed /\ AllAverage /\ RLess(lambda_away, lambda_home)) =>
        BLess(result.pl, result.pw)

\* two average teams under baselines computed from data, home baseline larger
C8_Witness ==
    /\ pc = "calculated"
    /\ AllAverage
    /\ total_finished > 0
    /\ RLess(league_avg_away, league_avg_home)
    /\ RLess(lambda_away, lambda_home)
    /\ BLess(result.pl, result.pw)

\* a fixture whose two teams both have more played games in the standings than
\* matches in the list that are not SCHEDULED/TIMED
Suspect(f) ==
    /\ PlayedGet(played_map, f.homeTeam) > FinishedCount(all_matches, f.homeTeam)
    /\ PlayedGet(played_map, f.awayTeam) > FinishedCount(all_matches, f.awayTeam)

\* C9: cross_validate keeps no focus-team fixture that is marked SCHEDULED or
\* TIMED while both teams' played-games counts suggest it has been played.
C9_SuspectFixturesExcluded ==
    cv_pc = "done" =>
        \A i \in 1 .. Len(valid_fixtures) : ~Suspect(valid_fixtures[i])

RECURSIVE SumField(_, _, _)
SumField(st, field, S) ==
    IF S = {} THEN 0
    ELSE LET t == CHOOSE t \in S : TRUE
         IN  st[t][field] + SumField(st, field, S \ {t})

Total(field) == SumField(stats, field, DOMAIN stats)

\* C10: after any prefix, home_games and away_games both sum to the processed
\* count, home_gf and away_ga to the home-goal total, away_gf and home_ga to the
\* away-goal total, and every team in the table has played at least once.
C10_Conservation ==
    /\ Total("home_games") = total_finished
    /\ Total("away_games") = total_finished
    /\ Total("home_gf") = total_home_goals
    /\ Total("away_ga") = total_home_goals
    /\ Total("away_gf") = total_away_goals
    /\ Total("home_ga") = total_away_goals
    /\ \A t \in DOMAIN stats : stats[t].home_games + stats[t].away_games >= 1

\* two processed matches over three teams with goals on both sides
C10_Witness ==
    /\ pc = "loop"
    /\ total_finished >= 2
    /\ Cardinality(DOMAIN stats) = 3
    /\ total_home_goals > 0
    /\ total_away_goals > total_home_goals
====
